---------------------------- MODULE Spec2Model ----------------------------
(***************************************************************************)
(* A model of the analysis engine of AcousticAnalyzer                      *)
(* (src/src/PluginProcessor.{h,cpp}): block ingestion, frame accumulation, *)
(* windowed transform, the four features, the composite score, and the     *)
(* recording / export pipeline shared between the audio thread (producer)  *)
(* and the message thread (consumer).                                      *)
(*                                                                         *)
(* Numbers.  A C++ float is modelled as a fixed-point integer counting     *)
(* units of 1/FltOne, with three extra values for what IEEE arithmetic     *)
(* produces outside the finite range: PInf, NInf and NaN.  Results are     *)
(* truncated towards zero to the unit; a finite result beyond FltMax       *)
(* overflows to an infinity, as a float beyond FLT_MAX does.               *)
(*                                                                         *)
(* Sizes.  The frame has 2^fftOrder samples and the loudness history       *)
(* rmsHistorySize entries, as in the source, but with small values of      *)
(* fftOrder and rmsHistorySize (the source has 11 and 100): every loop     *)
(* runs over the same index ranges relative to these two sizes.            *)
(***************************************************************************)
EXTENDS Integers, Sequences, FiniteSets, TLC

\* ---------------------------------------------------------------- bounds

\* log2 of the frame size (the source: 11).  The transform tables below
\* cover orders 2 and 3.
fftOrder == 2

\* Entries of the loudness history (the source: 100).
rmsHistorySize == 3

\* Fixed-point unit: the float 1.0f is FltOne units.
FltOne == 100

\* Largest finite float, in units (plays the part of FLT_MAX).
FltMax == 20000000

\* Last value of the millisecond wall clock.
MaxClock == 1

\* Calls the message thread makes (start, stop, export, paint).
MaxOps == 3

\* ----------------------------------------------------- integer helpers

MaxInt == 2^30 + (2^30 - 1)

Abs(x) == IF x < 0 THEN -x ELSE x

Sgn(x) == IF x < 0 THEN -1 ELSE IF x > 0 THEN 1 ELSE 0

Max2(a, b) == IF a < b THEN b ELSE a

Min2(a, b) == IF a < b THEN a ELSE b

\* Division truncating towards zero, as C++ integer and float-to-unit
\* truncation do (TLA+'s \div rounds towards minus infinity).
TDiv(a, b) == Sgn(a) * Sgn(b) * (Abs(a) \div Abs(b))

RECURSIVE ISqrtIn(_, _, _)
ISqrtIn(n, lo, hi) ==
    IF lo >= hi THEN lo
    ELSE LET mid == (lo + hi + 1) \div 2
         IN  IF mid * mid <= n THEN ISqrtIn(n, mid, hi)
                               ELSE ISqrtIn(n, lo, mid - 1)

\* floor(sqrt(n)) for 0 <= n <= MaxInt
ISqrt(n) == ISqrtIn(n, 0, 46340)

RECURSIVE SumSeq(_)
SumSeq(s) == IF s = <<>> THEN 0 ELSE Head(s) + SumSeq(Tail(s))

\* ------------------------------------------------------ float arithmetic

PInf == FltMax + 1
NInf == -(FltMax + 1)
NaN == FltMax + 2

IsNaN(x) == x = NaN
IsInf(x) == x = PInf \/ x = NInf
IsFin(x) == -FltMax <= x /\ x <= FltMax

\* A finite exact result, rounded into the float range.
Rnd(x) == IF x > FltMax THEN PInf ELSE IF x < -FltMax THEN NInf ELSE x

FNeg(a) == IF IsNaN(a) THEN NaN ELSE -a

FAbs(a) == IF IsNaN(a) THEN NaN ELSE Abs(a)

FAdd(a, b) ==
    IF IsNaN(a) \/ IsNaN(b) THEN NaN
    ELSE IF IsInf(a) /\ IsInf(b) THEN (IF a = b THEN a ELSE NaN)
    ELSE IF IsInf(a) THEN a
    ELSE IF IsInf(b) THEN b
    ELSE Rnd(a + b)

FSub(a, b) == FAdd(a, FNeg(b))

\* |a| * num / den for non-negative integers, without leaving 32 bits:
\* the exact quotient when the product fits, else the quotient taken first.
\* A result beyond FltMax is reported as FltMax + 1.
ScaleAbs(a, num, den) ==
    IF num = 0 \/ a = 0 THEN 0
    ELSE IF a <= MaxInt \div num THEN Min2((a * num) \div den, FltMax + 1)
    ELSE IF (a \div den) > (FltMax \div num) THEN FltMax + 1
    ELSE Min2((a \div den) * num + (((a % den) * num) \div den), FltMax + 1)

\* a * (num / den) for a float a and an exact rational num/den, den > 0.
FScale(a, num, den) ==
    IF IsNaN(a) THEN NaN
    ELSE IF IsInf(a) THEN (IF num = 0 THEN NaN ELSE IF num > 0 THEN a ELSE -a)
    ELSE Rnd(Sgn(a) * Sgn(num) * ScaleAbs(Abs(a), Abs(num), den))

\* a * b for two floats (both in units of 1/FltOne).
FMul(a, b) ==
    IF IsNaN(a) \/ IsNaN(b) THEN NaN
    ELSE IF IsInf(a) \/ IsInf(b)
         THEN (IF a = 0 \/ b = 0 THEN NaN
               ELSE IF Sgn(a) = Sgn(b) THEN PInf ELSE NInf)
    ELSE Rnd(Sgn(a) * Sgn(b) * ScaleAbs(Abs(a), Abs(b), FltOne))

\* a / b for two floats.
FDiv(a, b) ==
    IF IsNaN(a) \/ IsNaN(b) THEN NaN
    ELSE IF IsInf(a) /\ IsInf(b) THEN NaN
    ELSE IF IsInf(a) THEN (IF Sgn(a) * (IF b < 0 THEN -1 ELSE 1) > 0
                           THEN PInf ELSE NInf)
    ELSE IF IsInf(b) THEN 0
    ELSE IF b = 0 THEN (IF a = 0 THEN NaN ELSE IF a > 0 THEN PInf ELSE NInf)
    ELSE Rnd(Sgn(a) * Sgn(b) * ScaleAbs(Abs(a), FltOne, Abs(b)))

\* std::sqrt
FSqrt(a) ==
    IF IsNaN(a) \/ a < 0 THEN NaN
    ELSE IF a = PInf THEN PInf
    ELSE IF a <= MaxInt \div FltOne THEN ISqrt(a * FltOne)
    ELSE ISqrt(a \div FltOne) * FltOne

\* a < b and a > b on floats: false when either side is NaN.
FLt(a, b) == ~IsNaN(a) /\ ~IsNaN(b) /\ a < b

\* A comparison that also passes on equality.
FGe(a, b) == ~FLt(a, b)

FGt(a, b) == FLt(b, a)

\* juce::jlimit(lo, hi, v) == v < lo ? lo : (hi < v ? hi : v)
jlimit(lo, hi, v) == IF FLt(v, lo) THEN lo ELSE IF FLt(hi, v) THEN hi ELSE v

\* ------------------------------------------------------------ the frame

\* PluginProcessor.h:56  fftSize = 1 << fftOrder
fftSize == 2^fftOrder

\* Scale of the window and twiddle tables below (entries count 1/TabOne).
TabOne == 10^3

\* juce::dsp::WindowingFunction<float>(fftSize, hann), normalised (the
\* constructor's default): w[i] = (0.5 - 0.5 cos(2 pi i / (size - 1))) * size / sum.
HannTable ==
    CASE fftSize = 4 -> <<0, 2000, 2000, 0>>
      [] fftSize = 8 -> <<0, 430, 1397, 2173, 2173, 1397, 430, 0>>

\* cos and sin of j eighths of a turn.
Cos8 == <<1000, 707, 0, -707, -1000, -707, 0, 707>>
Sin8 == <<0, 707, 1000, 707, 0, -707, -1000, -707>>

\* sqrt(a^2 + b^2) for integers, scaled so that the squares stay in 32 bits.
Hypot(a, b) ==
    LET m == Max2(Abs(a), Abs(b))
        k == (m \div 30000) + 1
    IN  k * ISqrt((Abs(a) \div k) * (Abs(a) \div k) + (Abs(b) \div k) * (Abs(b) \div k))

\* window.multiplyWithWindowingTable(fftData.data(), fftSize): the first
\* fftSize slots are multiplied by the table, the rest are left alone.
multiplyWithWindowingTable(fd) ==
    [i \in 1..(2 * fftSize) |->
        IF i <= fftSize THEN FScale(fd[i], HannTable[i], TabOne) ELSE fd[i]]

\* One part (cos or sin) of bin k of the discrete Fourier transform of the
\* finite samples xs[1..fftSize].
DftPart(xs, k, tab) ==
    SumSeq([n \in 1..fftSize |->
        LET w == tab[(((k * (n - 1)) * (8 \div fftSize)) % 8) + 1]
        IN  Sgn(xs[n]) * Sgn(w) * ScaleAbs(Abs(xs[n]), Abs(w), TabOne)])

\* fft.performFrequencyOnlyForwardTransform(fftData.data()): slots
\* 0..fftSize-1 receive the magnitudes of the fftSize bins of the transform of
\* the first fftSize slots, the upper fftSize slots are zeroed.  When a slot is
\* not finite the transform's arithmetic yields non-finite bins; which of
\* +inf and NaN depends on the FFT engine the build links, so it is the
\* argument nf.
performFrequencyOnlyForwardTransform(fd, nf) ==
    LET finite == \A n \in 1..fftSize : IsFin(fd[n])
    IN  [i \in 1..(2 * fftSize) |->
            IF i > fftSize THEN 0
            ELSE IF ~finite THEN nf
            ELSE Rnd(Hypot(DftPart(fd, i - 1, Cos8), DftPart(fd, i - 1, Sin8)))]

\* ------------------------------------------------------- the extractors

\* Left-to-right float accumulation of the terms of s, from acc.
RECURSIVE FSum(_, _)
FSum(acc, s) == IF s = <<>> THEN acc ELSE FSum(FAdd(acc, Head(s)), Tail(s))

\* (i * currentSampleRate) / fftSize, narrowed to float
BinFrequency(i, sr) == (i * sr * FltOne) \div fftSize

\* calculateSpectralCentroid: the value stored to spectralCentroid.
calculateSpectralCentroid(fd, sr) ==
    LET bins == [i \in 1..(fftSize \div 2) |-> i - 1]
        numerator == FSum(0, [i \in 1..(fftSize \div 2) |->
                                 FMul(fd[i], BinFrequency(bins[i], sr))])
        denominator == FSum(0, [i \in 1..(fftSize \div 2) |-> fd[i]])
        centroid == IF FGt(denominator, 0) THEN FDiv(numerator, denominator) ELSE 0
    IN  jlimit(0, FltOne, FScale(centroid, 1, 8000))

\* calculateSpectralHarshness: the value stored to spectralHarshness.
calculateSpectralHarshness(fd, sr) ==
    LET crossoverBin == (2000 * fftSize) \div sr
        lowFreqEnergy == FSum(0, [i \in 1..(fftSize \div 2) |->
                                     IF i - 1 < crossoverBin THEN fd[i] ELSE 0])
        highFreqEnergy == FSum(0, [i \in 1..(fftSize \div 2) |->
                                      IF i - 1 < crossoverBin THEN 0 ELSE fd[i]])
        totalEnergy == FAdd(lowFreqEnergy, highFreqEnergy)
        harshness == IF FGt(totalEnergy, 0) THEN FDiv(highFreqEnergy, totalEnergy) ELSE 0
    IN  jlimit(0, FltOne, FScale(harshness, 2, 1))

\* calculateDynamicVariability: the value stored to dynamicVariability.
calculateDynamicVariability(hist) ==
    LET mean == FScale(FSum(0, hist), 1, rmsHistorySize)
        variance == FScale(FSum(0, [i \in 1..rmsHistorySize |->
                                       FMul(FSub(hist[i], mean), FSub(hist[i], mean))]),
                           1, rmsHistorySize)
        stdDev == FSqrt(variance)
    IN  jlimit(0, FltOne, FScale(stdDev, 20, 1))

\* calculateTemporalUnpredictability: the value stored to
\* temporalUnpredictability.  The loop runs over the array in storage order.
calculateTemporalUnpredictability(hist) ==
    LET totalDiff == FSum(0, [i \in 1..(rmsHistorySize - 1) |->
                                 FAbs(FSub(hist[i + 1], hist[i]))])
        count == rmsHistorySize - 1
        avgDiff == IF count > 0 THEN FScale(totalDiff, 1, count) ELSE 0
    IN  jlimit(0, FltOne, FScale(avgDiff, 50, 1))

\* calculateAcousticActivationScore: the value stored to
\* acousticActivationScore, from the four values just stored.
calculateAcousticActivationScore(c, h, d, u) ==
    LET centroidScore == FScale(FSub(FltOne, c), 100, 1)
        harshnessScore == FScale(FSub(FltOne, h), 100, 1)
        dynamicScore == FScale(FSub(FltOne, d), 100, 1)
        unpredictScore == FScale(FSub(FltOne, u), 100, 1)
        score == FAdd(FAdd(FAdd(FScale(centroidScore, 25, 100),
                                FScale(harshnessScore, 35, 100)),
                           FScale(dynamicScore, 20, 100)),
                      FScale(unpredictScore, 20, 100))
    IN  jlimit(0, 100 * FltOne, score)

\* buffer.getRMSLevel(0, 0, n): sqrt of the mean square, accumulated in
\* double (no overflow for float samples), 0 for an empty block.
bufferRMSLevel(block) ==
    IF Len(block) = 0 THEN 0
    ELSE LET m == SumSeq([i \in 1..Len(block) |-> Abs(block[i])])
             k == (m \div 4000) + 1
             sq == SumSeq([i \in 1..Len(block) |->
                              (Abs(block[i]) \div k) * (Abs(block[i]) \div k)])
         IN  k * ISqrt(sq \div Len(block))


\* ------------------------------------------------------------ the state

VARIABLES
    \* the audio thread's own state (PluginProcessor.h:60-76)
    fftData, fftPos, rmsHistory, rmsHistoryPos, currentSampleRate,
    \* the published atomics (PluginProcessor.h:64-69)
    spectralCentroid, spectralHarshness, rmsLevel,
    dynamicVariability, temporalUnpredictability, acousticActivationScore,
    \* data logging (PluginProcessor.h:90-93); dataLogLock is the lock's owner
    dataLog, isLogging, loggingStartTime, dataLogLock,
    \* the audio thread inside processBlock: where it is, its buffer, its i
    ppc, buffer, bufPos,
    \* the host: for each of its processBlock calls, the buffers it may
    \* deliver (call number calls + 1 is the next)
    feed,
    \* the message thread: where it is, calls made, what its last call was
    mpc, ops, last,
    \* the file chooser: whether it is open, and the csvContent it was last
    \* launched with; the last alert shown; the data point count paint drew
    chooser, alert, ui,
    \* the editor: which of its three buttons are enabled
    enabled,
    \* juce::Time::currentTimeMillis()
    now,
    \* history: analysis passes begun, samples and calls taken,
    \* startLogging and stopLogging calls, prepareToPlay calls
    frames, samplesIn, calls, starts, stops, prepares,
    \* history: stopLogging has returned and startLogging was not called since;
    \* the value of stops when the audio thread checked the flag for the
    \* DataPoint it is about to append (0 when it is not)
    frozen, checkStops,
    \* history: the frame counts at the last start call and the last stop, the
    \* clock at the last start call, and whether a start or a stop ran while
    \* performFFTAnalysis was running
    sessLo, sessHi, callTime, overlap, dropped

dspVars == <<fftData, fftPos, rmsHistory, rmsHistoryPos, currentSampleRate>>
pubVars == <<spectralCentroid, spectralHarshness, dynamicVariability,
             temporalUnpredictability, acousticActivationScore>>
logVars == <<dataLog, isLogging, loggingStartTime, dataLogLock>>
audVars == <<ppc, buffer, bufPos, feed>>
msgVars == <<mpc, ops, last>>
outVars == <<chooser, alert, ui, enabled>>
audHist == <<frames, samplesIn, calls, prepares, checkStops>>
msgHist == <<starts, stops, frozen, sessLo, sessHi, callTime, dropped>>

vars == <<dspVars, pubVars, rmsLevel, logVars, audVars, msgVars, outVars, now,
          audHist, msgHist, overlap>>

\* ----------------------------------------------------------- the inputs

\* Sample values: silence, half and full scale of either sign, and two finite
\* samples near the top of the float range (the window takes Huge past it,
\* and leaves Big finite).
Quiet == 0
Half == FltOne \div 2
Full == FltOne
Huge == FltMax - (FltMax \div 4)
Big == FltMax \div 2 - (FltMax \div 20)

\* n zeros.
Zeros(n) == [i \in 1..n |-> 0]

\* A block of n samples: v at the positions in at, Quiet elsewhere.
Pulse(n, at, v) == [i \in 1..n |-> IF i \in at THEN v ELSE Quiet]

\* A block of n samples alternating a, b, a, ...
Alternating(n, a, b) == [i \in 1..n |-> IF i % 2 = 1 THEN a ELSE b]

\* Sample rates the host may announce.
SampleRates == {8000, 44100}

\* processBlock calls the host makes.
MaxCalls == 2

\* prepareToPlay calls the host makes.
MaxPrepares == 1

\* The buffers of the concurrent specification.  The first call delivers
\* one sample, or two frames in one buffer; each later call delivers one
\* sample less than a frame (which completes the frame a single sample began).
FirstBlocks ==
    { <<Half>>,
      Alternating(2 * fftSize, Full, -Full) }

LaterBlocks == { Pulse(fftSize - 1, {1}, Full) }

MainFeed == [i \in 1..MaxCalls |-> IF i = 1 THEN FirstBlocks ELSE LaterBlocks]

\* The buffers of the engine specification: empty, shorter than a frame, a
\* frame, two frames, and frames with a sample near the top of the range.
EngineBlocks ==
    { <<>>,
      <<Half>>,
      Pulse(fftSize - 1, {1}, Full),
      Alternating(fftSize, Full, -Full),
      Alternating(2 * fftSize, Half, Quiet),
      Pulse(fftSize, {2}, Huge),
      Pulse(fftSize, {2}, Big) }

EngineFeed == [i \in 1..MaxCalls |-> EngineBlocks]

\* The frames of the partition specification, and the two ways the host
\* delivers a frame f: in one call, or one sample per call.
FrameSamples == {Quiet, Half, -Full}

FrameInputs == [1..fftSize -> FrameSamples]

InOneCall(f) == <<{f}>>

InSingleSamples(f) == [i \in 1..Len(f) |-> {<<f[i]>>}]

\* The smallest sample that is not silence.
Tiny == 1

\* processBlock calls of a scripted host.
ScriptCalls == 4

\* The buffers of the scripted specification: empty, single samples (silent,
\* barely audible, half scale), a silent frame, one sample less than a frame,
\* and two frames and a sample.
ScriptBlocks ==
    { <<>>,
      <<Quiet>>,
      <<Tiny>>,
      <<Half>>,
      Zeros(fftSize),
      Pulse(fftSize - 1, {2}, Full),
      Alternating(2 * fftSize + 1, Full, -Half) }

\* A script fixes the buffer of every call.
Scripted(s) == [i \in 1..Len(s) |-> {s[i]}]

Scripts == { Scripted(s) : s \in [1..ScriptCalls -> ScriptBlocks] }

\* -------------------------------------------------------------- Init

\* The constructor (PluginProcessor.cpp:5-14) and the member initialisers.
InitEngine ==
    /\ fftData = Zeros(2 * fftSize)
    /\ fftPos = 0
    /\ rmsHistory = Zeros(rmsHistorySize)
    /\ rmsHistoryPos = 0
    /\ currentSampleRate = 44100
    /\ spectralCentroid = 0
    /\ spectralHarshness = 0
    /\ rmsLevel = 0
    /\ dynamicVariability = 0
    /\ temporalUnpredictability = 0
    /\ acousticActivationScore = 50 * FltOne
    /\ dataLog = <<>>
    /\ isLogging = FALSE
    /\ loggingStartTime = 0
    /\ dataLogLock = "none"

\* The editor's constructor (PluginEditor.cpp:10-43): the buttons are
\* enabled by default, lines 32 and 42 disable Stop and Export.
ButtonsOfNewEditor ==
    [startRecordingButton |-> TRUE,
     stopRecordingButton |-> FALSE,
     exportButton |-> FALSE]

InitRest ==
    /\ ppc = "idle" /\ buffer = <<>> /\ bufPos = 0
    /\ mpc = "idle" /\ ops = 0 /\ last = "none"
    /\ chooser = [open |-> FALSE, csv |-> <<>>] /\ alert = "none" /\ ui = 0
    /\ enabled = ButtonsOfNewEditor
    /\ now = 0
    /\ frames = 0 /\ samplesIn = 0 /\ calls = 0 /\ starts = 0 /\ stops = 0
    /\ prepares = 0 /\ frozen = FALSE /\ checkStops = 0
    /\ sessLo = 0 /\ sessHi = 0 /\ callTime = 0 /\ overlap = FALSE /\ dropped = 0

Init == InitEngine /\ InitRest /\ feed = MainFeed

\* ------------------------------------------------------ the audio thread

\* The audio thread is inside performFFTAnalysis.
InFlight == ppc \in {"fft", "check", "lock", "append", "unlock"}

\* The message thread is inside startLogging.
InStart == mpc \in {"sl_lock", "sl_body"}

\* prepareToPlay (the host calls it while processBlock is not running).
prepareToPlay(sampleRate) ==
    /\ ppc = "idle"
    /\ prepares < MaxPrepares
    /\ currentSampleRate' = sampleRate
    /\ fftPos' = 0
    /\ prepares' = prepares + 1
    /\ UNCHANGED <<fftData, rmsHistory, rmsHistoryPos, pubVars, rmsLevel, logVars,
                   audVars, msgVars, outVars, now, frames, samplesIn, calls,
                   checkStops, msgHist, overlap>>

\* The buffers the host may deliver next.
NextBlocks == IF calls < Len(feed) THEN feed[calls + 1] ELSE {}

\* processBlock's first part with the history slot written and the next
\* write position left open; two pushes that go wrong: one that never
\* advances the position, and one that advances it by two.
PB_EnterAt(block, slot, nextPos) ==
    /\ ppc = "idle"
    /\ LET rms == bufferRMSLevel(block)
       IN  /\ rmsLevel' = rms
           /\ rmsHistory' = [rmsHistory EXCEPT ![slot] = rms]
           /\ rmsHistoryPos' = nextPos
    /\ buffer' = block
    /\ bufPos' = 0
    /\ ppc' = "loop"
    /\ calls' = calls + 1
    /\ UNCHANGED <<fftData, fftPos, currentSampleRate, pubVars, logVars, feed,
                   msgVars, outVars, now, frames, samplesIn, prepares, checkStops,
                   msgHist, overlap>>

PB_EnterStuck(block) == PB_EnterAt(block, rmsHistoryPos + 1, rmsHistoryPos)

PB_EnterSkip(block) ==
    PB_EnterAt(block, rmsHistoryPos + 1, (rmsHistoryPos + 2) % rmsHistorySize)

\* processBlock, lines 32-47: the block's RMS is published and pushed to the
\* history.
PB_Enter(block) ==
    /\ ppc = "idle"
    /\ LET rms == bufferRMSLevel(block)
       IN  /\ rmsLevel' = rms
           /\ rmsHistory' = [rmsHistory EXCEPT ![rmsHistoryPos + 1] = rms]
           /\ rmsHistoryPos' = (rmsHistoryPos + 1) % rmsHistorySize
    /\ buffer' = block
    /\ bufPos' = 0
    /\ ppc' = "loop"
    /\ calls' = calls + 1
    /\ UNCHANGED <<fftData, fftPos, currentSampleRate, pubVars, logVars, feed,
                   msgVars, outVars, now, frames, samplesIn, prepares, checkStops,
                   msgHist, overlap>>

\* A frame taken for full one sample short.
FrameFullShort(pos) == pos >= fftSize - 1

\* A frame taken for full one sample late, and one taken for full at its
\* first sample.
FrameFullLate(pos) == pos > fftSize

FrameFullEarly(pos) == pos >= 1

\* line 56: the frame is full
FrameFull(pos) == pos >= fftSize

\* How many samples the loop of lines 51-61 stores from position i of a
\* buffer of n samples before the frame is full or the buffer ends.
RECURSIVE Taken(_, _, _)
Taken(pos, i, n) ==
    IF i >= n THEN 0
    ELSE IF FrameFull(pos + 1) THEN 1
    ELSE 1 + Taken(pos + 1, i + 1, n)

\* processBlock, lines 51-61: the loop up to the next full frame, or to the
\* end of the buffer, where processBlock returns.
PB_Collect ==
    /\ ppc = "loop"
    /\ LET k == Taken(fftPos, bufPos, Len(buffer))
           full == k > 0 /\ FrameFull(fftPos + k)
       IN  /\ fftData' = [i \in 1..(2 * fftSize) |->
                            IF fftPos < i /\ i <= fftPos + k
                            THEN buffer[bufPos + (i - fftPos)] ELSE fftData[i]]
           /\ bufPos' = bufPos + k
           /\ samplesIn' = samplesIn + k
           /\ IF full
              THEN /\ fftPos' = 0
                   /\ ppc' = "fft"
                   /\ frames' = frames + 1
                   /\ overlap' = (overlap \/ InStart)
              ELSE /\ fftPos' = fftPos + k
                   /\ ppc' = "idle"
                   /\ UNCHANGED <<frames, overlap>>
    /\ UNCHANGED <<rmsHistory, rmsHistoryPos, currentSampleRate, pubVars, rmsLevel,
                   logVars, buffer, feed, msgVars, outVars, now, calls, prepares,
                   checkStops, msgHist>>

\* performFFTAnalysis, lines 66-77: window, transform and the five stores.
PB_Analyse(nf) ==
    /\ ppc = "fft"
    /\ LET fd == performFrequencyOnlyForwardTransform(
                     multiplyWithWindowingTable(fftData), nf)
           c == calculateSpectralCentroid(fd, currentSampleRate)
           h == calculateSpectralHarshness(fd, currentSampleRate)
           d == calculateDynamicVariability(rmsHistory)
           u == calculateTemporalUnpredictability(rmsHistory)
       IN  /\ fftData' = fd
           /\ spectralCentroid' = c
           /\ spectralHarshness' = h
           /\ dynamicVariability' = d
           /\ temporalUnpredictability' = u
           /\ acousticActivationScore' = calculateAcousticActivationScore(c, h, d, u)
    /\ ppc' = "check"
    /\ UNCHANGED <<fftPos, rmsHistory, rmsHistoryPos, currentSampleRate, rmsLevel,
                   logVars, buffer, bufPos, feed, msgVars, outVars, now, audHist,
                   msgHist, overlap>>

\* A producer that logs every frame, whatever the flag says.
LogAlways(flag) == TRUE

\* line 80: whether the frame is logged, given the flag just loaded
ShouldLog(flag) == flag

\* performFFTAnalysis, line 80: isLogging.load()
PB_CheckLogging ==
    /\ ppc = "check"
    /\ ppc' = IF ShouldLog(isLogging) THEN "lock" ELSE "loop"
    /\ checkStops' = IF ShouldLog(isLogging) THEN stops ELSE 0
    /\ UNCHANGED <<dspVars, pubVars, rmsLevel, logVars, buffer, bufPos, feed,
                   msgVars, outVars, now, frames, samplesIn, calls, prepares,
                   msgHist, overlap>>

\* A lock that keeps nobody out.
EnterAnyway(owner, thread) == TRUE

\* juce::ScopedLock: the lock can be entered by a thread when no other holds it.
CanEnter(owner, thread) == owner = "none" \/ owner = thread

\* logDataPoint, line 204
LD_Lock ==
    /\ ppc = "lock"
    /\ CanEnter(dataLogLock, "audio")
    /\ dataLogLock' = "audio"
    /\ ppc' = "append"
    /\ UNCHANGED <<dspVars, pubVars, rmsLevel, dataLog, isLogging, loggingStartTime,
                   buffer, bufPos, feed, msgVars, outVars, now, audHist, msgHist,
                   overlap>>

\* A DataPoint stamped with the clock itself, not with the time elapsed
\* since the origin.
NewDataPointAbsolute(t) ==
    [timestamp |-> t,
     activationScore |-> acousticActivationScore,
     spectralCentroid |-> spectralCentroid,
     spectralHarshness |-> spectralHarshness,
     dynamicVariability |-> dynamicVariability,
     temporalUnpredictability |-> temporalUnpredictability,
     rmsLevel |-> rmsLevel,
     frame |-> frames,
     session |-> starts,
     late |-> frozen]

\* logDataPoint, lines 206-215: the DataPoint built at clock value t.  The
\* timestamp is kept in milliseconds (the source divides by 1000.0); frame,
\* session and late are history: the analysis pass the point belongs to, the
\* start calls completed so far, and whether a stop call had returned with no
\* start call after it.
NewDataPoint(t) ==
    [timestamp |-> t - loggingStartTime,
     activationScore |-> acousticActivationScore,
     spectralCentroid |-> spectralCentroid,
     spectralHarshness |-> spectralHarshness,
     dynamicVariability |-> dynamicVariability,
     temporalUnpredictability |-> temporalUnpredictability,
     rmsLevel |-> rmsLevel,
     frame |-> frames,
     session |-> starts,
     late |-> frozen]

\* logDataPoint, lines 206-217
LD_Append ==
    /\ ppc = "append"
    /\ dataLog' = Append(dataLog, NewDataPoint(now))
    /\ ppc' = "unlock"
    /\ UNCHANGED <<dspVars, pubVars, rmsLevel, isLogging, loggingStartTime,
                   dataLogLock, buffer, bufPos, feed, msgVars, outVars, now,
                   audHist, msgHist, overlap>>

\* logDataPoint, line 218: the ScopedLock leaves
LD_Unlock ==
    /\ ppc = "unlock"
    /\ dataLogLock' = "none"
    /\ ppc' = "loop"
    /\ checkStops' = 0
    /\ UNCHANGED <<dspVars, pubVars, rmsLevel, dataLog, isLogging, loggingStartTime,
                   buffer, bufPos, feed, msgVars, outVars, now, frames, samplesIn,
                   calls, prepares, msgHist, overlap>>

\* The wall clock advances (it is taken not to run backwards).
Tick ==
    /\ now < MaxClock
    /\ now' = now + 1
    /\ UNCHANGED <<dspVars, pubVars, rmsLevel, logVars, audVars, msgVars, outVars,
                   audHist, msgHist, overlap>>

\* ---------------------------------------------------- the message thread

\* startLogging is called (the editor's start button, PluginEditor.cpp:15).
M_Start ==
    /\ mpc = "idle"
    /\ ops < MaxOps
    /\ mpc' = "sl_lock"
    /\ ops' = ops + 1
    /\ callTime' = now
    /\ sessLo' = frames
    /\ frozen' = FALSE
    /\ overlap' = (overlap \/ InFlight)
    /\ UNCHANGED <<dspVars, pubVars, rmsLevel, logVars, audVars, last, outVars, now,
                   audHist, starts, stops, sessHi, dropped>>

\* startLogging, line 191: the ScopedLock is entered
SL_Lock ==
    /\ mpc = "sl_lock"
    /\ CanEnter(dataLogLock, "msg")
    /\ dataLogLock' = "msg"
    /\ mpc' = "sl_body"
    /\ UNCHANGED <<dspVars, pubVars, rmsLevel, dataLog, isLogging, loggingStartTime,
                   audVars, ops, last, outVars, now, audHist, msgHist, overlap>>

\* A start that keeps the old log.
Kept(log) == log

\* startLogging, line 192: what dataLog.clear() leaves of the log
Cleared(log) == <<>>

\* startLogging, lines 192-195: the log is cleared, the origin taken, the
\* flag stored; the ScopedLock leaves and the call returns to the button's
\* onClick, which sets the three buttons (PluginEditor.cpp:16-18).
SL_Body ==
    /\ mpc = "sl_body"
    /\ dataLog' = Cleared(dataLog)
    /\ loggingStartTime' = now
    /\ isLogging' = TRUE
    /\ dataLogLock' = "none"
    /\ starts' = starts + 1
    /\ dropped' = Len(dataLog)
    /\ mpc' = "idle"
    /\ last' = "start"
    /\ enabled' = [startRecordingButton |-> FALSE,
                   stopRecordingButton |-> TRUE,
                   exportButton |-> FALSE]
    /\ UNCHANGED <<dspVars, pubVars, rmsLevel, audVars, ops, chooser, alert, ui,
                   now, audHist, stops, frozen, sessLo, sessHi, callTime, overlap>>

\* stopLogging, lines 197-200, and the three buttons set by the onClick
\* that called it (PluginEditor.cpp:28-30)
M_Stop ==
    /\ mpc = "idle"
    /\ ops < MaxOps
    /\ isLogging' = FALSE
    /\ ops' = ops + 1
    /\ last' = "stop"
    /\ stops' = stops + 1
    /\ frozen' = TRUE
    /\ sessHi' = frames
    /\ overlap' = (overlap \/ InFlight)
    /\ enabled' = [startRecordingButton |-> TRUE,
                   stopRecordingButton |-> FALSE,
                   exportButton |-> TRUE]
    /\ UNCHANGED <<dspVars, pubVars, rmsLevel, dataLog, loggingStartTime, dataLogLock,
                   audVars, mpc, chooser, alert, ui, now, audHist, starts, sessLo,
                   callTime, dropped>>

\* exportToCSV is called (the editor's export button, PluginEditor.cpp:40).
M_Export ==
    /\ mpc = "idle"
    /\ ops < MaxOps
    /\ mpc' = "ex_lock"
    /\ ops' = ops + 1
    /\ UNCHANGED <<dspVars, pubVars, rmsLevel, logVars, audVars, last, outVars, now,
                   audHist, msgHist, overlap>>

\* exportToCSV, line 230: the ScopedLock is entered
EX_Lock ==
    /\ mpc = "ex_lock"
    /\ CanEnter(dataLogLock, "msg")
    /\ dataLogLock' = "msg"
    /\ mpc' = "ex_body"
    /\ UNCHANGED <<dspVars, pubVars, rmsLevel, dataLog, isLogging, loggingStartTime,
                   audVars, ops, last, outVars, now, audHist, msgHist, overlap>>

\* The digits of n, at least d of them (zeros in front).
RECURSIVE Digits(_, _)
Digits(n, d) ==
    IF d <= 1 /\ n < 10 THEN ToString(n)
    ELSE Digits(n \div 10, d - 1) \o ToString(n % 10)

\* juce::String(value, decimals) for the value v / one: fixed notation,
\* rounded to the given number of decimals.
FixedString(v, one, decimals) ==
    LET whole == Abs(v) \div one
        part == (((Abs(v) % one) * (10 ^ decimals)) + (one \div 2)) \div one
        carry == part \div (10 ^ decimals)
    IN  (IF v < 0 THEN "-" ELSE "")
            \o Digits(whole + carry, 1) \o "." \o Digits(part % (10 ^ decimals), decimals)

\* juce::String(float, decimals)
FloatString(v, decimals) ==
    IF IsNaN(v) THEN "nan"
    ELSE IF v = PInf THEN "inf"
    ELSE IF v = NInf THEN "-inf"
    ELSE FixedString(v, FltOne, decimals)

\* exportToCSV, line 242: the header row
CsvHeader ==
    "Timestamp_Seconds,Activation_Score,Spectral_Centroid,Spectral_Harshness,Dynamic_Variability,Temporal_Unpredictability,RMS_Level"

\* exportToCSV, lines 246-252: one row (without its line end)
CsvRow(point) ==
    FixedString(point.timestamp, TabOne, 3) \o ","
        \o FloatString(point.activationScore, 2) \o ","
        \o FloatString(point.spectralCentroid, 4) \o ","
        \o FloatString(point.spectralHarshness, 4) \o ","
        \o FloatString(point.dynamicVariability, 4) \o ","
        \o FloatString(point.temporalUnpredictability, 4) \o ","
        \o FloatString(point.rmsLevel, 6)

\* An export loop that stops one data point short.
CsvContentShort(log) ==
    <<CsvHeader>> \o [i \in 1..(Len(log) - 1) |-> CsvRow(log[i])]

\* exportToCSV, lines 242-253: csvContent as its sequence of lines
CsvContent(log) == <<CsvHeader>> \o [i \in 1..Len(log) |-> CsvRow(log[i])]

\* An export without the empty check.
NeverNothing(log) == FALSE

\* exportToCSV, line 232
NothingToExport(log) == Len(log) = 0

\* An export that returns from the empty-log path without leaving its
\* critical section.
EX_BodyHolding ==
    /\ mpc = "ex_body"
    /\ IF NothingToExport(dataLog)
       THEN /\ alert' = "No Data"
            /\ chooser' = chooser
            /\ dataLogLock' = "msg"
       ELSE /\ alert' = alert
            /\ chooser' = [open |-> TRUE, csv |-> CsvContent(dataLog)]
            /\ dataLogLock' = "none"
    /\ mpc' = "idle"
    /\ last' = "export"
    /\ UNCHANGED <<dspVars, pubVars, rmsLevel, dataLog, isLogging, loggingStartTime,
                   audVars, ops, ui, enabled, now, audHist, msgHist, overlap>>

\* exportToCSV, lines 232-292: an empty log is reported in an alert and
\* nothing else happens; otherwise csvContent is built and the file chooser
\* launched with a copy of it.  The ScopedLock leaves and the call returns.
EX_Body ==
    /\ mpc = "ex_body"
    /\ IF NothingToExport(dataLog)
       THEN /\ alert' = "No Data"
            /\ chooser' = chooser
       ELSE /\ alert' = alert
            /\ chooser' = [open |-> TRUE, csv |-> CsvContent(dataLog)]
    /\ dataLogLock' = "none"
    /\ mpc' = "idle"
    /\ last' = "export"
    /\ UNCHANGED <<dspVars, pubVars, rmsLevel, dataLog, isLogging, loggingStartTime,
                   audVars, ops, ui, enabled, now, audHist, msgHist, overlap>>

\* exportToCSV, lines 267-291: the chooser's callback.  The user cancels, or
\* the file is written, or writing fails.
FC_Done(outcome) ==
    /\ mpc = "idle"
    /\ chooser.open
    /\ chooser' = [chooser EXCEPT !.open = FALSE]
    /\ alert' = CASE outcome = "written" -> "Export Successful"
                  [] outcome = "failed" -> "Export Failed"
                  [] OTHER -> alert
    /\ UNCHANGED <<dspVars, pubVars, rmsLevel, logVars, audVars, msgVars, ui,
                   enabled, now, audHist, msgHist, overlap>>

\* The readout getters (PluginProcessor.h:38-43): atomic loads.
getSpectralCentroid == spectralCentroid
getSpectralHarshness == spectralHarshness
getRMSLevel == rmsLevel
getDynamicVariability == dynamicVariability
getTemporalUnpredictability == temporalUnpredictability
getAcousticActivationScore == acousticActivationScore

\* getRecordingTime (lines 220-226), in milliseconds
getRecordingTime == IF ~isLogging THEN 0 ELSE now - loggingStartTime

\* paint is called (the editor's 30 Hz timer, PluginEditor.cpp:147-150) and
\* draws the status line (lines 68-73: isCurrentlyLogging() and
\* getRecordingTime(), which read what only this thread writes).
M_Paint ==
    /\ mpc = "idle"
    /\ ops < MaxOps
    /\ mpc' = "p_count"
    /\ ops' = ops + 1
    /\ UNCHANGED <<dspVars, pubVars, rmsLevel, logVars, audVars, last, outVars, now,
                   audHist, msgHist, overlap>>

\* getDataPointCount (PluginProcessor.h:51) reads dataLog.size() without the
\* lock: while the audio thread is inside push_back the read races with it
\* and may return anything the vector's fields hold at that moment.
getDataPointCount ==
    IF ppc = "append" THEN 0..(Len(dataLog) + 1) ELSE {Len(dataLog)}

\* paint, lines 78 and 81-85, and the metric bars (lines 90-121, which load
\* the published values and change nothing); paint returns.
P_Count ==
    /\ mpc = "p_count"
    /\ \E n \in getDataPointCount : ui' = n
    /\ mpc' = "idle"
    /\ last' = "paint"
    /\ UNCHANGED <<dspVars, pubVars, rmsLevel, logVars, audVars, ops, chooser, alert,
                   enabled,
                   now, audHist, msgHist, overlap>>

\* ---------------------------------------------------- the specifications

Next ==
    \/ \E b \in NextBlocks : PB_Enter(b)
    \/ PB_Collect
    \/ \E nf \in {PInf, NaN} : PB_Analyse(nf)
    \/ PB_CheckLogging
    \/ LD_Lock
    \/ LD_Append
    \/ LD_Unlock
    \/ M_Start
    \/ SL_Lock
    \/ SL_Body
    \/ M_Stop
    \/ M_Export
    \/ EX_Lock
    \/ EX_Body
    \/ \E outcome \in {"cancel", "written", "failed"} : FC_Done(outcome)
    \/ M_Paint
    \/ P_Count
    \/ Tick

Spec == Init /\ [][Next]_vars

\* The audio thread inside processBlock (lines 32-62) and logDataPoint
\* (lines 202-218) other than at the ScopedLock: it keeps running.
AudioRuns ==
    \/ PB_Collect
    \/ PB_CheckLogging
    \/ LD_Append
    \/ LD_Unlock

\* performFFTAnalysis, lines 66-83: its loops are bounded, the audio thread
\* does not stay inside the analysis for ever.
AnalysisEnds == []<>(ppc # "fft")

\* The message thread inside a critical section of startLogging (lines
\* 191-195) or exportToCSV (lines 230-292): it runs to the section's end.
SectionRuns == SL_Body \/ EX_Body

\* Fair scheduling: a thread that can run does run, and a thread waiting at
\* the log lock gets it if the lock is free again and again.
Fairness ==
    /\ WF_vars(AudioRuns)
    /\ AnalysisEnds
    /\ WF_vars(SectionRuns)
    /\ SF_vars(LD_Lock)

\* The recording specification under fair scheduling: the host delivers one
\* buffer of two frames, so that the call reaches logDataPoint twice, while
\* the message thread starts, stops, exports and paints.
LiveFeed == <<{ Alternating(2 * fftSize, Full, -Full) }>>

InitOfLive == InitEngine /\ InitRest /\ feed = LiveFeed

NextLive ==
    \/ \E b \in NextBlocks : PB_Enter(b)
    \/ PB_Collect
    \/ \E nf \in {PInf, NaN} : PB_Analyse(nf)
    \/ PB_CheckLogging
    \/ LD_Lock
    \/ LD_Append
    \/ LD_Unlock
    \/ M_Start
    \/ SL_Lock
    \/ SL_Body
    \/ M_Stop
    \/ M_Export
    \/ EX_Lock
    \/ EX_Body
    \/ \E outcome \in {"cancel", "written", "failed"} : FC_Done(outcome)
    \/ M_Paint
    \/ P_Count

FairSpec == InitOfLive /\ [][NextLive]_vars /\ Fairness

\* createEditor, lines 294-297: the host opens the plugin's window (again);
\* the editor before it, if any, is gone, and the new one is as its
\* constructor leaves it (PluginEditor.cpp:5-46), whatever the processor is
\* doing.
createEditor ==
    /\ mpc = "idle"
    /\ ops < MaxOps
    /\ ops' = ops + 1
    /\ enabled' = ButtonsOfNewEditor
    /\ ui' = 0
    /\ last' = "editor"
    /\ UNCHANGED <<dspVars, pubVars, rmsLevel, logVars, audVars, mpc, chooser, alert,
                   now, audHist, msgHist, overlap>>

\* The user clicks a button of the editor: only an enabled button runs its
\* onClick (PluginEditor.cpp:13-19, 25-31, 38-41).
Click_Start == enabled.startRecordingButton /\ M_Start

Click_Stop == enabled.stopRecordingButton /\ M_Stop

Click_Export == enabled.exportButton /\ M_Export

\* Editor plus processor: the host delivers audio and opens the editor, the
\* user clicks what is enabled.
InitOfEditor == InitEngine /\ InitRest /\ feed = LiveFeed

NextEditor ==
    \/ \E b \in NextBlocks : PB_Enter(b)
    \/ PB_Collect
    \/ \E nf \in {PInf, NaN} : PB_Analyse(nf)
    \/ PB_CheckLogging
    \/ LD_Lock
    \/ LD_Append
    \/ LD_Unlock
    \/ createEditor
    \/ Click_Start
    \/ SL_Lock
    \/ SL_Body
    \/ Click_Stop
    \/ Click_Export
    \/ EX_Lock
    \/ EX_Body
    \/ \E outcome \in {"cancel", "written", "failed"} : FC_Done(outcome)
    \/ M_Paint
    \/ P_Count

SpecEditor == InitOfEditor /\ [][NextEditor]_vars

\* The engine alone: the host prepares it and feeds it, nobody records.
InitOfEngine == InitEngine /\ InitRest /\ feed = EngineFeed

NextEngine ==
    \/ \E sampleRate \in SampleRates : prepareToPlay(sampleRate)
    \/ \E b \in NextBlocks : PB_Enter(b)
    \/ PB_Collect
    \/ \E nf \in {PInf, NaN} : PB_Analyse(nf)
    \/ PB_CheckLogging

SpecEngine == InitOfEngine /\ [][NextEngine]_vars

\* One frame, delivered to a fresh engine in one call or in single samples.
InitOfFrame ==
    /\ InitEngine /\ InitRest
    /\ \E f \in FrameInputs : feed \in {InOneCall(f), InSingleSamples(f)}

NextFrame ==
    \/ \E b \in NextBlocks : PB_Enter(b)
    \/ PB_Collect
    \/ \E nf \in {PInf, NaN} : PB_Analyse(nf)
    \/ PB_CheckLogging

SpecFrame == InitOfFrame /\ [][NextFrame]_vars

\* A fresh engine and a host that follows a script, preparing the engine
\* whenever it likes between calls.
InitOfScript == InitEngine /\ InitRest /\ feed \in Scripts

NextScript ==
    \/ \E sampleRate \in SampleRates : prepareToPlay(sampleRate)
    \/ \E b \in NextBlocks : PB_Enter(b)
    \/ PB_Collect
    \/ \E nf \in {PInf, NaN} : PB_Analyse(nf)
    \/ PB_CheckLogging

SpecScript == InitOfScript /\ [][NextScript]_vars

\* ================================================================ claims

\* The frames one recording session saw: those completed between the start
\* call and the stop call.
SessionFrames == sessHi - sessLo

\* One start, then one stop, then an export that has returned, with no frame
\* under analysis while start ran or when stop was called.
CleanSessionExported ==
    /\ mpc = "idle" /\ last = "export"
    /\ starts = 1 /\ stops = 1 /\ frozen
    /\ ~overlap
    /\ SessionFrames >= 1

\* C1: after start, N >= 1 frames and stop, export hands the sink a header
\* and exactly N rows, the k-th row being the serialisation of the k-th frame
\* of the session, in frame order.
ExportRoundTrip ==
    CleanSessionExported =>
        /\ Len(chooser.csv) = 1 + SessionFrames
        /\ chooser.csv[1] = CsvHeader
        /\ Len(dataLog) = SessionFrames
        /\ \A k \in 1..SessionFrames :
              /\ dataLog[k].frame = sessLo + k
              /\ chooser.csv[k + 1] = CsvRow(dataLog[k])

\* A two-frame session has been exported.
ExportRoundTripSeen ==
    /\ CleanSessionExported
    /\ SessionFrames = 2
    /\ chooser.open
    /\ Len(chooser.csv) = 3

\* C2: the timestamps of the log are strictly increasing in log order.
TimestampsStrictlyIncreasing ==
    \A i \in 1..(Len(dataLog) - 1) :
        dataLog[i].timestamp < dataLog[i + 1].timestamp

\* C3: when a start call has returned, recording is active, the origin was
\* taken during that call, and the log holds no DataPoint appended before
\* the call cleared it.
RestartClears ==
    (mpc = "idle" /\ last = "start") =>
        /\ isLogging
        /\ callTime <= loggingStartTime /\ loggingStartTime <= now
        /\ \A i \in 1..Len(dataLog) : dataLog[i].session = starts

\* A second start has returned; recording was active when it was called and
\* it dropped points of the first session.
RestartSeen ==
    /\ mpc = "idle" /\ last = "start"
    /\ starts = 2 /\ stops = 0
    /\ dropped >= 1

\* C4 as stated: between a stop call's return and the next start call no
\* step changes the log.
FrozenAfterStop == [][(frozen /\ frozen') => dataLog' = dataLog]_vars

\* C4, amended: between a stop call's return and the next start call the log
\* changes only by the append of one DataPoint, by a producer whose check of
\* the recording flag came before the stop.
FrozenButInFlight ==
    [][(frozen /\ frozen' /\ dataLog' # dataLog) =>
          /\ ppc = "append"
          /\ checkStops < stops
          /\ Len(dataLog') = Len(dataLog) + 1
          /\ SubSeq(dataLog', 1, Len(dataLog)) = dataLog]_vars

\* A DataPoint was appended after stop returned.
InFlightAppendSeen ==
    /\ frozen
    /\ dataLog # <<>>
    /\ dataLog[Len(dataLog)].late

\* The message thread takes a step of exportToCSV.
ExportStep ==
    \/ mpc = "idle" /\ mpc' = "ex_lock"
    \/ mpc = "ex_lock" /\ mpc' = "ex_body"
    \/ mpc = "ex_body" /\ mpc' = "idle"

\* C5: export on an empty log reports the failure in the "No Data" alert and
\* hands nothing to the sink; and no step of export changes the log, the
\* recording flag or a published metric.
ExportEmptyReported ==
    [][ExportStep =>
          /\ UNCHANGED <<dataLog, isLogging, pubVars, rmsLevel>>
          /\ (mpc = "ex_body" /\ Len(dataLog) = 0) =>
                (alert' = "No Data" /\ chooser' = chooser)]_vars

\* Export on an engine that never recorded has reported the empty log.
ExportEmptySeen ==
    /\ mpc = "idle" /\ last = "export"
    /\ starts = 0
    /\ alert = "No Data"
    /\ ~chooser.open /\ chooser.csv = <<>>

\* C8: the critical sections of the producer's append and of start and
\* export on the message thread never run at once, and whoever is inside
\* one holds the lock.
MutualExclusion ==
    /\ ~(ppc \in {"append", "unlock"} /\ mpc \in {"sl_body", "ex_body"})
    /\ ppc \in {"append", "unlock"} => dataLogLock = "audio"
    /\ mpc \in {"sl_body", "ex_body"} => dataLogLock = "msg"

\* The producer is appending while start waits for the lock.
ContentionSeen ==
    /\ ppc = "append"
    /\ mpc = "sl_lock"
    /\ dataLogLock = "audio"

\* C9: the message thread reads the log's size only while it holds the lock
\* or while no other thread is writing the log.
CountReadGuarded ==
    mpc = "p_count" => (dataLogLock = "msg" \/ ppc # "append")
\* The six published metrics, as the getters return them.
MetricSet ==
    [centroid |-> getSpectralCentroid,
     harshness |-> getSpectralHarshness,
     loudness |-> getRMSLevel,
     variability |-> getDynamicVariability,
     unpredictability |-> getTemporalUnpredictability,
     score |-> getAcousticActivationScore]

\* What a fresh engine publishes after one processBlock call that delivers
\* exactly the frame f (lines 42-47, then 51-61 and 64-77 once).
OneCallMetrics(f) ==
    LET rms == bufferRMSLevel(f)
        hist == [i \in 1..rmsHistorySize |-> IF i = 1 THEN rms ELSE 0]
        fd == performFrequencyOnlyForwardTransform(
                  multiplyWithWindowingTable(f \o Zeros(fftSize)), NaN)
        c == calculateSpectralCentroid(fd, 44100)
        h == calculateSpectralHarshness(fd, 44100)
        d == calculateDynamicVariability(hist)
        u == calculateTemporalUnpredictability(hist)
    IN  [centroid |-> c, harshness |-> h, loudness |-> rms, variability |-> d,
         unpredictability |-> u,
         score |-> calculateAcousticActivationScore(c, h, d, u)]

\* The frame the host delivers in the partition specification.
GivenFrame ==
    IF Len(feed) = 1
    THEN CHOOSE b \in feed[1] : TRUE
    ELSE [i \in 1..Len(feed) |-> (CHOOSE b \in feed[i] : TRUE)[1]]

\* The host has delivered everything and processBlock has returned.
AllDelivered == ppc = "idle" /\ calls = Len(feed)

\* C6 as stated: a frame delivered one sample per call leaves the same
\* MetricSet as the frame delivered in one call.
PartitionInvariance ==
    AllDelivered => MetricSet = OneCallMetrics(GivenFrame)

\* C6, amended: however the frame is delivered, the spectral centroid and
\* the spectral harshness published are those of the one-call delivery.
PartitionInvariantSpectrum ==
    AllDelivered =>
        /\ getSpectralCentroid = OneCallMetrics(GivenFrame).centroid
        /\ getSpectralHarshness = OneCallMetrics(GivenFrame).harshness

\* A frame with a spectrum has been delivered in single samples, and the
\* loudness published is not that of the one-call delivery.
SingleSamplesSeen ==
    /\ AllDelivered
    /\ calls = fftSize
    /\ frames = 1
    /\ getSpectralCentroid > 0
    /\ getRMSLevel # OneCallMetrics(GivenFrame).loudness

InRange(v, hi) == IsFin(v) /\ 0 <= v /\ v <= hi

\* C10: the four features lie in [0, 1] and the score in [0, 100], as
\* published and in every DataPoint of the log.
MetricsInBounds ==
    /\ InRange(getSpectralCentroid, FltOne)
    /\ InRange(getSpectralHarshness, FltOne)
    /\ InRange(getDynamicVariability, FltOne)
    /\ InRange(getTemporalUnpredictability, FltOne)
    /\ InRange(getAcousticActivationScore, 100 * FltOne)
    /\ \A i \in 1..Len(dataLog) :
          /\ InRange(dataLog[i].spectralCentroid, FltOne)
          /\ InRange(dataLog[i].spectralHarshness, FltOne)
          /\ InRange(dataLog[i].dynamicVariability, FltOne)
          /\ InRange(dataLog[i].temporalUnpredictability, FltOne)
          /\ InRange(dataLog[i].activationScore, 100 * FltOne)

\* ------------------------------------------------ claims about the engine

\* The buffer the script fixes for call i.
ScriptBlock(i) == CHOOSE b \in feed[i] : TRUE

\* Block b holds no sample other than silence.
Silent(b) == \A j \in 1..Len(b) : b[j] = Quiet

\* Every buffer delivered so far was silent.
SilentSoFar == \A i \in 1..calls : Silent(ScriptBlock(i))

\* C11: when all input so far was silence and a frame has been analysed,
\* the centroid, harshness, variability and unpredictability published are
\* 0 and the score is 100 (finite values: no quotient of zeros is taken).
SilenceScoresCalm ==
    (SilentSoFar /\ frames >= 1 /\ ppc # "fft") =>
        /\ getSpectralCentroid = 0
        /\ getSpectralHarshness = 0
        /\ getDynamicVariability = 0
        /\ getTemporalUnpredictability = 0
        /\ getAcousticActivationScore = 100 * FltOne

\* A silent frame has been analysed and processBlock has returned.
SilentFrameSeen ==
    /\ SilentSoFar
    /\ ppc = "idle"
    /\ frames >= 1
    /\ samplesIn >= fftSize
    /\ getAcousticActivationScore = 100 * FltOne

\* The loudness history oldest first: the slot at the write position is the
\* next to be overwritten.
Chronological ==
    [i \in 1..rmsHistorySize |->
        rmsHistory[((rmsHistoryPos + i - 1) % rmsHistorySize) + 1]]

\* All values of the history are equal.
ConstantHistory == \A i \in 1..rmsHistorySize : rmsHistory[i] = rmsHistory[1]

\* The history alternates between two distinct values, oldest to newest.
AlternatingHistory ==
    /\ Chronological[1] # Chronological[2]
    /\ \A i \in 1..(rmsHistorySize - 2) : Chronological[i + 2] = Chronological[i]

\* C12: after an analysis pass, a constant history gives variability 0 and
\* unpredictability 0, and an alternating history gives both strictly
\* positive, wherever the write position is.
HistoryShapeDecides ==
    ppc = "check" =>
        /\ ConstantHistory =>
              (getDynamicVariability = 0 /\ getTemporalUnpredictability = 0)
        /\ AlternatingHistory =>
              (FGt(getDynamicVariability, 0) /\ FGt(getTemporalUnpredictability, 0))

\* The number of samples the script delivers in its first k calls.
RECURSIVE TotalSamples(_)
TotalSamples(k) ==
    IF k = 0 THEN 0 ELSE TotalSamples(k - 1) + Len(ScriptBlock(k))

\* What one run of the sample loop does, by the cursor alone: with r samples
\* of the buffer left, a frame completes iff the cursor reaches fftSize.
CursorStep ==
    LET r == Len(buffer) - bufPos
    IN  IF fftPos + r >= fftSize
        THEN /\ ppc' = "fft"
             /\ frames' = frames + 1
             /\ fftPos' = 0
             /\ bufPos' = bufPos + (fftSize - fftPos)
        ELSE /\ ppc' = "idle"
             /\ frames' = frames
             /\ fftPos' = fftPos + r
             /\ bufPos' = Len(buffer)

\* Between calls the cursor is within the frame, and while the engine has
\* not been prepared again the passes and the cursor are the quotient and the
\* remainder of the samples delivered.
CursorBetweenCalls ==
    ppc = "idle" =>
        /\ 0 <= fftPos /\ fftPos < fftSize
        /\ prepares = 0 =>
              /\ frames = TotalSamples(calls) \div fftSize
              /\ fftPos = TotalSamples(calls) % fftSize

\* C13: frame completion is driven by the cursor: a call that finds the
\* cursor at c and delivers L samples runs floor((c + L) / fftSize) passes
\* before it returns and leaves the cursor at (c + L) mod fftSize; without a
\* prepareToPlay the passes total floor(samples / fftSize).
CursorDriven ==
    /\ []CursorBetweenCalls
    /\ [][ppc = "loop" => CursorStep]_vars

\* A call that found the cursor inside a frame has completed two frames and
\* left the cursor inside a third.
CursorWrapSeen ==
    /\ ppc = "idle"
    /\ prepares = 0
    /\ calls >= 2
    /\ TotalSamples(calls - 1) % fftSize # 0
    /\ frames >= 2
    /\ Len(buffer) > 2 * fftSize
    /\ fftPos > 0

\* The samples of the script's first k buffers, in arrival order.
RECURSIVE Delivered(_)
Delivered(k) == IF k = 0 THEN <<>> ELSE Delivered(k - 1) \o ScriptBlock(k)

\* The samples ingested so far: those of the earlier calls, and those the
\* sample loop of the current call has stored.
Ingested == Delivered(calls - 1) \o SubSeq(buffer, 1, bufPos)

\* The last n entries of s.
LastOf(s, n) == SubSeq(s, Len(s) - n + 1, Len(s))

\* C14: when an analysis pass starts, the frame's slots hold the fftSize
\* most recently ingested samples in arrival order, also after prepareToPlay
\* has reset the cursor inside a frame.
FrameWhole ==
    ppc = "fft" =>
        /\ Len(Ingested) >= fftSize
        /\ SubSeq(fftData, 1, fftSize) = LastOf(Ingested, fftSize)

\* A third pass starts, on a frame that began where prepareToPlay reset
\* the cursor, in slots the earlier passes transformed in place.
ResetFrameSeen ==
    /\ ppc = "fft"
    /\ prepares >= 1
    /\ frames >= 3
    /\ samplesIn % fftSize # 0

\* The loudness the script's call i pushes.
Loudness(i) == bufferRMSLevel(ScriptBlock(i))

\* A step that enters processBlock pushes the block's loudness to the slot
\* at the write position and advances the position by one; no other step
\* touches the history.
OnePushPerCall ==
    IF calls' = calls + 1
    THEN /\ rmsHistory' = [rmsHistory EXCEPT ![rmsHistoryPos + 1] = Loudness(calls')]
         /\ rmsHistoryPos' = (rmsHistoryPos + 1) % rmsHistorySize
    ELSE UNCHANGED <<rmsHistory, rmsHistoryPos>>

\* C15: the history advances once per processBlock call, whether the call
\* completes no frame, one or several: after k calls the write position is
\* k mod rmsHistorySize.
HistoryAtBlockCadence ==
    /\ [](rmsHistoryPos = calls % rmsHistorySize)
    /\ [][OnePushPerCall]_vars

\* The history has wrapped after calls of which one was empty and one
\* completed two frames.
BlockCadenceSeen ==
    /\ ppc = "idle"
    /\ calls > rmsHistorySize
    /\ rmsHistoryPos = calls % rmsHistorySize
    /\ \E i \in 1..calls : Len(ScriptBlock(i)) = 0
    /\ \E i \in 1..calls : Len(ScriptBlock(i)) > 2 * fftSize
    /\ frames < calls

\* The latest of the first k pushes that went to slot j (0: none did).
LastPushTo(j, k) == IF k < j THEN 0 ELSE k - ((k - j) % rmsHistorySize)

\* C16: the history has rmsHistorySize entries and a write position within
\* it; after k pushes its slots hold the last min(k, rmsHistorySize) values
\* pushed, each push having overwritten the oldest, and zeros elsewhere.
RingHoldsLastValues ==
    /\ rmsHistoryPos \in 0..(rmsHistorySize - 1)
    /\ Len(rmsHistory) = rmsHistorySize
    /\ { LastPushTo(j, calls) : j \in 1..rmsHistorySize } \ {0}
           = (calls - Min2(calls, rmsHistorySize) + 1)..calls
    /\ \A j \in 1..rmsHistorySize :
          rmsHistory[j] = IF LastPushTo(j, calls) = 0 THEN 0
                          ELSE Loudness(LastPushTo(j, calls))

\* One push more than the history holds: the first value pushed has been
\* overwritten by a different one.
RingOverwriteSeen ==
    /\ ppc = "idle"
    /\ calls = rmsHistorySize + 1
    /\ Loudness(1) # Loudness(calls)
    /\ rmsHistory[1] = Loudness(calls)

\* C17: the unpredictability published by an analysis pass is the mean
\* absolute difference of consecutive loudness values taken oldest to
\* newest, whatever the write position.
UnpredictabilityChronological ==
    ppc = "check" =>
        getTemporalUnpredictability
            = calculateTemporalUnpredictability(Chronological)

\* ---------------------------------------------- claims about recording

\* The DataPoints of the log appended after a stop call had returned and
\* before the next start call.
LateAppends == { i \in 1..Len(dataLog) : dataLog[i].late }

\* C18: a frame in flight when stop returns is appended or not, and nothing
\* more: at most one DataPoint is appended between a stop call's return and
\* the next start call.
AtMostOneLateAppend == Cardinality(LateAppends) <= 1

\* The frame in flight at the stop was appended after it, and a frame
\* completed later was not.
LateAppendThenNoneSeen ==
    /\ frozen
    /\ ppc = "idle"
    /\ Cardinality(LateAppends) = 1
    /\ dataLog[Len(dataLog)].late
    /\ dataLog[Len(dataLog)].frame < frames

\* C19: every DataPoint of the log was appended after the start call that
\* last cleared the log, and its elapsed time is measured from that call's
\* origin: it is not negative, and origin plus elapsed time is a clock value
\* that has been reached.
ElapsedAgainstOrigin ==
    \A i \in 1..Len(dataLog) :
        /\ dataLog[i].session = starts
        /\ dataLog[i].timestamp >= 0
        /\ loggingStartTime + dataLog[i].timestamp <= now

\* A second start call, later on the clock than the first, ran between the
\* producer's flag check for a frame and the append of that frame.
StartBeforeAppendSeen ==
    /\ mpc = "idle"
    /\ starts = 2
    /\ loggingStartTime > 0
    /\ \E i \in 1..Len(dataLog) :
          /\ dataLog[i].frame <= sessLo
          /\ dataLog[i].timestamp = 0

\* The lines are the header and one row per DataPoint of log, in order.
RowsOf(lines, log) ==
    /\ Len(lines) = 1 + Len(log)
    /\ lines[1] = CsvHeader
    /\ \A k \in 1..Len(log) : lines[k + 1] = CsvRow(log[k])

\* The log changes only by an append at its end, or by the clear of a start.
GrowsOrClears ==
    dataLog' # dataLog =>
        \/ mpc = "sl_body" /\ mpc' = "idle"
        \/ /\ Len(dataLog') = Len(dataLog) + 1
           /\ SubSeq(dataLog', 1, Len(dataLog)) = dataLog

\* C20: export serialises the log as it is at one instant: while export is
\* inside its critical section no step changes the log, the rows it hands
\* over are the DataPoints then in the log, in insertion order, and since
\* the log only grows at its end until a start clears it, they are a prefix
\* of what the log holds later in the session.
ExportSnapshot ==
    [][/\ mpc = "ex_body" => dataLog' = dataLog
       /\ (mpc = "ex_body" /\ mpc' = "idle" /\ Len(dataLog) > 0) =>
             (chooser'.open /\ RowsOf(chooser'.csv, dataLog))
       /\ GrowsOrClears]_vars

\* Export ran between two appends of a session: the rows it handed over are
\* the DataPoints of that moment and the log has grown since.
ExportBetweenAppendsSeen ==
    /\ mpc = "idle" /\ last = "export"
    /\ starts = 1 /\ stops = 0
    /\ Len(chooser.csv) >= 2
    /\ Len(chooser.csv) - 1 < Len(dataLog)
    /\ RowsOf(chooser.csv, SubSeq(dataLog, 1, Len(chooser.csv) - 1))

\* ------------------------------------------------------------------ C21

\* C21: under fair scheduling every processBlock call eventually returns,
\* whatever startLogging, stopLogging, exportToCSV and the getters do
\* meanwhile: the producer waits only at the log lock and every critical
\* section of start and export is left, on the empty-log path as well.
ProducerReturns == (ppc # "idle") ~> (ppc = "idle")

\* The producer waits at the log lock while export is inside its critical
\* section with an empty log.
ProducerWaitsSeen ==
    /\ ppc = "lock"
    /\ dataLogLock = "msg"
    /\ mpc = "ex_body"
    /\ NothingToExport(dataLog)

\* ------------------------------------------------------------------ C22

\* C22: in every reachable state of editor plus processor, an editor
\* constructed by createEditor while the processor is recording included,
\* the Stop button is enabled exactly when isLogging is set, the Start
\* button exactly when it is clear, and the Export button is never enabled
\* while recording.
ButtonsFollowRecording ==
    /\ enabled.stopRecordingButton = isLogging
    /\ enabled.startRecordingButton = ~isLogging
    /\ enabled.exportButton => ~isLogging
=============================================================================
